---- MODULE Spec2Model ----
(***************************************************************************)
(* Chat-sessions dashboard: the MessagingInterface page component          *)
(* (src/src/pages/messagingInterface.tsx) and the Snackbar component       *)
(* (src/src/components/snackbar.tsx), as a state machine.                  *)
(*                                                                         *)
(* React scheduling, as the model has it.  A hook's state (sessions, page, *)
(* loading, ...) changes when a setter runs; the functions a render made   *)
(* (fetchSessions, lastSessionElementRef, handleSessionClick) read the     *)
(* values of the render that made them, kept here in `view`.  Setters      *)
(* called from an effect, a promise continuation, an observer callback or  *)
(* a timer are batched and rendered by a later task (Render); setters      *)
(* called from a user event (typing, picking a date, clicking) are         *)
(* rendered synchronously, together with the passive effects of that       *)
(* render, and that synchronous render does not pick up the batched        *)
(* updates still waiting.  Passive effects of a batched render run in a    *)
(* task of their own (RunPassiveEffects), always before the next render.   *)
(***************************************************************************)
EXTENDS Integers, Sequences, FiniteSets, TLC

VARIABLES
    sessions,           \* useState<ChatSession[]>([])
    selectedSession,    \* useState<number | null>(null)
    messages,           \* useState<Message[]>([])
    page,               \* useState(1)
    searchQuery,        \* useState("")
    totalPages,         \* useState<number | null>(null)
    loading,            \* useState(false)
    error,              \* useState<string | null>(null)
    isSnackbarVisible,  \* useState(false)
    startDate,          \* useState("")
    endDate,            \* useState("")
    observer,           \* useRef<IntersectionObserver | null>(null)
    view,               \* the values the last committed render read
    filteredSessions,   \* the list the last committed render drew
    effectsPending,     \* passive effects of the last render not yet run
    fetchEffectPending, \* ... among them the effect on [fetchSessions]
    inFlight,           \* fetch() calls not yet resolved
    timers,             \* ids of the setTimeout timers not yet fired or cleared
    ripe,               \* ... those whose delay has elapsed
    timer,              \* the timer the Snackbar effect's cleanup holds
    halted,             \* history: a fetch failed and no viewport entry since
    exhausted,          \* history: the cursor has exceeded the known total
    shows,              \* history: failures shown since the snackbar was hidden
    closes,             \* history: onClose calls since the snackbar was shown
    outdated,           \* history: timers still running at a later show
    mounted,            \* the page is in the React tree
    connected           \* the observers that observe an element

vars == <<sessions, selectedSession, messages, page, searchQuery, totalPages,
          loading, error, isSnackbarVisible, startDate, endDate, observer,
          view, filteredSessions, effectsPending, fetchEffectPending,
          inFlight, timers, ripe, timer, halted, exhausted, shows, closes,
          outdated, mounted, connected>>

-----------------------------------------------------------------------------
(* Bounds of the model *)

\* a request is issued only for a page number up to MaxPage
MaxPage == 4
\* at most MaxInFlight fetch() calls are unresolved at once: the observer's
\* callback, which can run again and again before a render, runs only while
\* it leaves room for the call of the effect
MaxInFlight == 2
\* timer ids are 1..MaxTimers
MaxTimers == 2
\* the history counters shows and closes stop counting at MaxCount
MaxCount == 2

-----------------------------------------------------------------------------
(* Values *)

\* null, of totalPages, selectedSession and a timer handle
Null == 0

\* error: string | null
NoError == "null"
HttpErrorMessage == "Failed to fetch sessions. Please try again."
TransportErrorMessage == "Failed to fetch"

\* A timestamp is <<day, tick>>, the day and the time of day of an ISO-8601
\* string; a date input's value is <<>> (the empty string) or <<day>>.
TicksPerDay == 2

\* new Date(timestamp).getTime()
GetTime(timestamp) == timestamp[1] * TicksPerDay + timestamp[2]

\* new Date(startDate).getTime(): a date input's day at midnight UTC
DateInputTime(d) == d[1] * TicksPerDay

Msg(i, d, t) == [id |-> i, timestamp |-> <<d, t>>]

\* The sessions the backend serves.  An id names one session with one
\* message history (ChatSession.id is unique and stable).
SessionPool ==
    { [id |-> 1, name |-> <<"A", "b">>, messages |-> <<Msg(1, 2, 1), Msg(2, 1, 0)>>],
      [id |-> 2, name |-> <<"a">>,      messages |-> <<Msg(1, 2, 1)>>],
      [id |-> 3, name |-> <<"B", "a">>, messages |-> <<>>],
      [id |-> 4, name |-> <<"b">>,      messages |-> <<Msg(1, 1, 0)>>] }

Session(i) == CHOOSE s \in SessionPool : s.id = i

\* data.total_pages of one response; 0 also stands for a missing field
TotalPagesValues == 0..MaxPage

\* what the user can type into the search box
Queries ==
    {<<>>, <<"a">>, <<"A">>, <<"b">>, <<"B">>, <<"a", "B">>, <<"A", "b">>, <<"b", "b">>}

\* what the user can pick in a date input
DateInputs == {<<>>, <<0>>, <<1>>, <<3>>}

-----------------------------------------------------------------------------
(* Pure functions of the page component *)

\* a.messages[0]?.timestamp || new Date(0), then new Date(...).getTime()
LatestTime(s) ==
    IF s.messages = <<>> THEN 0 ELSE GetTime(s.messages[1].timestamp)

\* the comparator handed to sort(): negative when a goes first
CompareRecency(a, b) == LatestTime(b) - LatestTime(a)

\* Array.prototype.sort with that comparator, as a stable insertion sort:
\* x goes before the first element the comparator puts behind it
RECURSIVE InsertSorted(_, _)
InsertSorted(x, sorted) ==
    IF sorted = <<>> THEN <<x>>
    ELSE IF CompareRecency(sorted[1], x) > 0
         THEN <<x>> \o sorted
         ELSE <<sorted[1]>> \o InsertSorted(x, Tail(sorted))

RECURSIVE SortByRecency(_)
SortByRecency(list) ==
    IF list = <<>> THEN <<>>
    ELSE InsertSorted(list[Len(list)],
                      SortByRecency(SubSeq(list, 1, Len(list) - 1)))

\* the updater of setSessions: [...prevSessions, ...sortedSessions].sort(...)
MergeSessionsReplacing(prevSessions, chat_sessions) ==
    SortByRecency(chat_sessions)
MergeSessionsUnsorted(prevSessions, chat_sessions) ==
    prevSessions \o SortByRecency(chat_sessions)
MergeSessions(prevSessions, chat_sessions) ==
    SortByRecency(prevSessions \o SortByRecency(chat_sessions))

\* data.total_pages || null
TotalPagesOrNull(total_pages) == IF total_pages = 0 THEN Null ELSE total_pages

\* String.prototype.toLowerCase
LowerChar(c) == CASE c = "A" -> "a" [] c = "B" -> "b" [] OTHER -> c
ToLowerCase(str) == [i \in DOMAIN str |-> LowerChar(str[i])]

\* String.prototype.includes
Includes(str, search) ==
    \E i \in 0..(Len(str) - Len(search)) :
        SubSeq(str, i + 1, i + Len(search)) = search

\* the predicate of sessions.filter(...)
MatchesNameCaseSensitive(session, query) == Includes(session.name, query)
MatchesName(session, query) ==
    Includes(ToLowerCase(session.name), ToLowerCase(query))

IsWithinDateRange(session, start, end) ==
    /\ (start = <<>> \/ LatestTime(session) >= DateInputTime(start))
    /\ (end = <<>> \/ LatestTime(session) <= DateInputTime(end))

FilterSessionsReversed(list, query, start, end) ==
    LET kept == SelectSeq(list, LAMBDA s :
                    MatchesName(s, query) /\ IsWithinDateRange(s, start, end))
    IN  [i \in DOMAIN kept |-> kept[Len(kept) + 1 - i]]
FilterSessions(list, query, start, end) ==
    SelectSeq(list, LAMBDA s :
        MatchesName(s, query) /\ IsWithinDateRange(s, start, end))

\* sessions.find((session) => session.id === sessionId): <<>> when undefined
FindSessionAny(list, sessionId) ==
    IF list = <<>> THEN <<>> ELSE <<list[1]>>
FindSession(list, sessionId) ==
    LET hits == SelectSeq(list, LAMBDA s : s.id = sessionId)
    IN  IF hits = <<>> THEN <<>> ELSE <<hits[1]>>

-----------------------------------------------------------------------------
(* What a render's functions read *)

\* the values fetchSessions and lastSessionElementRef close over
Closure(v) == [loading |-> v.loading, page |-> v.page, totalPages |-> v.totalPages]

\* if (loading || (totalPages !== null && page > totalPages)) return;
GuardReturns(c) ==
    c.loading \/ (c.totalPages # Null /\ c.page > c.totalPages)

\* the element the ref is attached to: the last of the drawn list, by key
FirstElement(list) == IF list = <<>> THEN Null ELSE list[1].id
LastElement(list) == IF list = <<>> THEN Null ELSE list[Len(list)].id

\* lastSessionElementRef(node), as made by a render with closure c
RefCall(c, node, obs) ==
    IF GuardReturns(c) THEN obs
    ELSE <<[target |-> node, fs |-> c]>>

\* observer.current.disconnect(): that observer observes nothing any more
DisconnectNothing(live, obs) == live
Disconnect(live, obs) == live \ {obs[i] : i \in DOMAIN obs}

\* the observers observing an element after lastSessionElementRef(node)
RefConnected(c, node, obs, live) ==
    IF GuardReturns(c) THEN live
    ELSE Disconnect(live, obs)
             \cup (IF node # Null THEN {[target |-> node, fs |-> c]} ELSE {})

\* The ref calls of one commit: the old ref is called with null when it
\* changed or left its element, then the new ref with the new last element.
CommitRefs(oldC, oldLast, newC, newLast, obs) ==
    LET moved == oldC # newC \/ oldLast # newLast
        detached == IF oldLast # Null /\ moved THEN RefCall(oldC, Null, obs) ELSE obs
    IN  IF newLast # Null /\ moved THEN RefCall(newC, newLast, detached) ELSE detached

\* ... and the observers observing an element after them
CommitConnected(oldC, oldLast, newC, newLast, obs, live) ==
    LET moved == oldC # newC \/ oldLast # newLast
        detached == IF oldLast # Null /\ moved THEN RefCall(oldC, Null, obs) ELSE obs
        unobserved == IF oldLast # Null /\ moved
                      THEN RefConnected(oldC, Null, obs, live) ELSE live
    IN  IF newLast # Null /\ moved
        THEN RefConnected(newC, newLast, detached, unobserved)
        ELSE unobserved

\* a timer id not in use
FreshTimer(used) == CHOOSE t \in 1..MaxTimers : t \notin used

Min(a, b) == IF a < b THEN a ELSE b

ExceedsTotal(p, total) == total # Null /\ p > total

-----------------------------------------------------------------------------
(* The state after construction: the first render is committed with the    *)
(* initial hook state, the list is empty so no ref is attached, and the    *)
(* passive effects of that render (Snackbar's and the page's) are pending. *)

Snapshot ==
    [sessions |-> sessions, page |-> page, totalPages |-> totalPages,
     loading |-> loading, error |-> error,
     isSnackbarVisible |-> isSnackbarVisible]

\* a batched state update waits for its render
Dirty == view # Snapshot

Init ==
    /\ sessions = <<>>
    /\ selectedSession = Null
    /\ messages = <<>>
    /\ page = 1
    /\ searchQuery = <<>>
    /\ totalPages = Null
    /\ loading = FALSE
    /\ error = NoError
    /\ isSnackbarVisible = FALSE
    /\ startDate = <<>>
    /\ endDate = <<>>
    /\ observer = <<>>
    /\ view = [sessions |-> <<>>, page |-> 1, totalPages |-> Null,
               loading |-> FALSE, error |-> NoError,
               isSnackbarVisible |-> FALSE]
    /\ filteredSessions = <<>>
    /\ effectsPending = TRUE
    /\ fetchEffectPending = TRUE
    /\ inFlight = <<>>
    /\ timers = {}
    /\ ripe = {}
    /\ timer = Null
    /\ halted = FALSE
    /\ exhausted = FALSE
    /\ shows = 0
    /\ closes = 0
    /\ outdated = {}
    /\ mounted = TRUE
    /\ connected = {}

-----------------------------------------------------------------------------
(* fetchSessions, up to its first await *)

\* one unresolved fetch(): the page in its URL and, as history, the loaded
\* list and the cursor at the time of the call
Request(c) == [page |-> c.page, prevSessions |-> sessions, prevPage |-> page]

\* fetchSessions() as made by a render with closure c
FetchSessionsWithoutFetch(c) ==
    IF GuardReturns(c)
    THEN UNCHANGED <<loading, inFlight>>
    ELSE /\ c.page <= MaxPage
         /\ loading' = TRUE
         /\ inFlight' = inFlight
FetchSessions(c) ==
    IF GuardReturns(c)
    THEN UNCHANGED <<loading, inFlight>>
    ELSE /\ c.page <= MaxPage
         /\ loading' = TRUE
         /\ inFlight' = Append(inFlight, Request(c))

RemoveAt(list, i) == SubSeq(list, 1, i - 1) \o SubSeq(list, i + 1, Len(list))

-----------------------------------------------------------------------------
(* Snackbar's effect *)

\* clearTimeout(timer), the effect's cleanup
ClearTimeoutLeaks(pending, t) == pending
ClearTimeout(pending, t) == pending \ {t}

\* The cleanup of the previous run, then the effect body with the isVisible
\* of the committed render.  The effect runs after every render of the page,
\* since onClose is a new function in each of them.
SnackbarEffect(isVisible) ==
    LET cleared == ClearTimeout(timers, timer)
    IN  /\ IF isVisible /\ cleared # 1..MaxTimers
           THEN /\ timer' = FreshTimer(cleared)
                /\ timers' = cleared \cup {FreshTimer(cleared)}
           ELSE /\ timer' = Null
                /\ timers' = cleared
        /\ ripe' = ripe \cap cleared
        /\ outdated' = outdated \cap cleared

-----------------------------------------------------------------------------
(* Steps *)

\* The batched render and its commit: every function of the page is made
\* anew from the current state, the refs are re-attached, and the passive
\* effects are scheduled.
Render ==
    /\ mounted
    /\ Dirty
    /\ ~effectsPending
    /\ view' = Snapshot
    /\ filteredSessions' = FilterSessions(sessions, searchQuery, startDate, endDate)
    /\ observer' = CommitRefs(Closure(view), LastElement(filteredSessions),
                              Closure(view'), LastElement(filteredSessions'),
                              observer)
    /\ connected' = CommitConnected(Closure(view), LastElement(filteredSessions),
                                    Closure(view'), LastElement(filteredSessions'),
                                    observer, connected)
    /\ effectsPending' = TRUE
    /\ fetchEffectPending' = (Closure(view') # Closure(view))
    /\ UNCHANGED <<sessions, selectedSession, messages, page, searchQuery,
                   totalPages, loading, error, isSnackbarVisible, startDate,
                   endDate, inFlight, timers, ripe, timer, halted, exhausted,
                   shows, closes, outdated,
                   mounted>>

\* The passive effects of the last render: Snackbar's, then
\* useEffect(() => { fetchSessions(); }, [fetchSessions]).
RunPassiveEffects ==
    /\ mounted
    /\ effectsPending
    /\ SnackbarEffect(view.isSnackbarVisible)
    /\ IF fetchEffectPending
       THEN FetchSessions(Closure(view))
       ELSE UNCHANGED <<loading, inFlight>>
    /\ effectsPending' = FALSE
    /\ fetchEffectPending' = FALSE
    /\ UNCHANGED <<sessions, selectedSession, messages, page, searchQuery,
                   totalPages, error, isSnackbarVisible, startDate, endDate,
                   observer, view, filteredSessions, halted, exhausted,
                   shows, closes,
                   mounted, connected>>

\* The callback of an observer with entries[0].isIntersecting: the element
\* it observes enters the viewport.
Intersect ==
    /\ mounted
    /\ Len(inFlight) + 1 < MaxInFlight
    /\ \E o \in connected : FetchSessions(o.fs)
    /\ halted' = FALSE
    /\ UNCHANGED <<sessions, selectedSession, messages, page, searchQuery,
                   totalPages, error, isSnackbarVisible, startDate, endDate,
                   observer, view, filteredSessions, effectsPending,
                   fetchEffectPending, timers, ripe, timer, exhausted,
                   shows, closes, outdated,
                   mounted, connected>>

\* React has no render and no passive effect waiting.  Its render and effect
\* tasks take milliseconds: a network round trip and the 3000 ms of a timer
\* end only after them.  Observer callbacks and user events are not so bound.
Settled == ~Dirty /\ ~effectsPending

\* fetchSessions after its awaits, response.ok and a body that parses
FetchSuccess(i, chat_sessions, total_pages) ==
    /\ mounted
    /\ Settled
    /\ inFlight' = RemoveAt(inFlight, i)
    /\ totalPages' = TotalPagesOrNull(total_pages)
    /\ sessions' = MergeSessions(sessions, chat_sessions)
    /\ page' = page + 1
    /\ loading' = FALSE
    /\ exhausted' = (exhausted \/ ExceedsTotal(page', totalPages'))
    /\ UNCHANGED <<selectedSession, messages, searchQuery, error,
                   isSnackbarVisible, startDate, endDate, observer, view,
                   filteredSessions, effectsPending, fetchEffectPending,
                   timers, ripe, timer, halted, shows, closes,
                   outdated,
                   mounted, connected>>

\* fetchSessions after its await, !response.ok or fetch() rejecting: the
\* catch block and the finally block
FetchFailure(i, message) ==
    /\ mounted
    /\ Settled
    /\ inFlight' = RemoveAt(inFlight, i)
    /\ error' = message
    /\ isSnackbarVisible' = TRUE
    /\ loading' = FALSE
    /\ halted' = TRUE
    /\ shows' = IF isSnackbarVisible THEN Min(shows + 1, MaxCount) ELSE 1
    /\ closes' = IF isSnackbarVisible THEN closes ELSE 0
    /\ outdated' = outdated \cup (timers \ ripe)
    /\ UNCHANGED <<sessions, selectedSession, messages, page, searchQuery,
                   totalPages, startDate, endDate, observer, view,
                   filteredSessions, effectsPending, fetchEffectPending,
                   timers, ripe, timer, exhausted,
                   mounted, connected>>

\* The 3000 ms of the pending timers pass.
Elapse ==
    /\ timers # ripe
    /\ Settled
    /\ ripe' = timers
    /\ UNCHANGED <<sessions, selectedSession, messages, page, searchQuery,
                   totalPages, loading, error, isSnackbarVisible, startDate,
                   endDate, observer, view, filteredSessions, effectsPending,
                   fetchEffectPending, inFlight, timers, timer, halted,
                   exhausted, shows, closes, outdated,
                   mounted, connected>>

\* A timer fires: onClose, that is setSnackbarVisible(false)
TimerFire(t) ==
    /\ t \in ripe
    /\ timers' = timers \ {t}
    /\ ripe' = ripe \ {t}
    /\ isSnackbarVisible' = FALSE
    /\ closes' = Min(closes + 1, MaxCount)
    /\ outdated' = outdated \ {t}
    /\ UNCHANGED <<sessions, selectedSession, messages, page, searchQuery,
                   totalPages, loading, error, startDate, endDate, observer,
                   view, filteredSessions, effectsPending, fetchEffectPending,
                   inFlight, timer, halted, exhausted, shows,
                   mounted, connected>>

\* The synchronous render of a user event with the filter inputs q, s, e:
\* the list is filtered anew from the sessions the page last rendered, the
\* ref follows the last element, and Snackbar's effect runs again.
SyncRender(q, s, e) ==
    /\ mounted
    /\ ~effectsPending
    /\ filteredSessions' = FilterSessions(view.sessions, q, s, e)
    /\ observer' = CommitRefs(Closure(view), LastElement(filteredSessions),
                              Closure(view), LastElement(filteredSessions'),
                              observer)
    /\ connected' = CommitConnected(Closure(view), LastElement(filteredSessions),
                                    Closure(view), LastElement(filteredSessions'),
                                    observer, connected)
    /\ SnackbarEffect(view.isSnackbarVisible)
    /\ UNCHANGED <<sessions, page, totalPages, loading, error,
                   isSnackbarVisible, view, effectsPending,
                   fetchEffectPending, inFlight, halted, exhausted, shows,
                   closes,
                   mounted>>

\* onChange of the search box
SetSearchQuery(q) ==
    /\ q # searchQuery
    /\ searchQuery' = q
    /\ SyncRender(q, startDate, endDate)
    /\ UNCHANGED <<selectedSession, messages, startDate, endDate>>

\* onChange of the two date inputs
SetStartDate(d) ==
    /\ d # startDate
    /\ startDate' = d
    /\ SyncRender(searchQuery, d, endDate)
    /\ UNCHANGED <<selectedSession, messages, searchQuery, endDate>>

SetEndDate(d) ==
    /\ d # endDate
    /\ endDate' = d
    /\ SyncRender(searchQuery, startDate, d)
    /\ UNCHANGED <<selectedSession, messages, searchQuery, startDate>>

\* handleSessionClick(sessionId), which reads the sessions of its render
HandleSessionClick(sessionId) ==
    LET selected == FindSession(view.sessions, sessionId)
    IN  IF selected # <<>> /\ selectedSession # sessionId
        THEN /\ selectedSession' = sessionId
             /\ messages' = selected[1].messages
             /\ SyncRender(searchQuery, startDate, endDate)
             /\ UNCHANGED <<searchQuery, startDate, endDate>>
        ELSE UNCHANGED vars

SessionIds == {s.id : s \in SessionPool}

\* The page leaves the React tree (its parent stops rendering it), once the
\* passive effects still pending have run: the ref of the last element is
\* called with null and the cleanup of Snackbar's effect clears its timer.
Unmount ==
    /\ mounted
    /\ ~effectsPending
    /\ mounted' = FALSE
    /\ observer' = IF LastElement(filteredSessions) # Null
                   THEN RefCall(Closure(view), Null, observer)
                   ELSE observer
    /\ connected' = IF LastElement(filteredSessions) # Null
                    THEN RefConnected(Closure(view), Null, observer, connected)
                    ELSE connected
    /\ timers' = ClearTimeout(timers, timer)
    /\ ripe' = ripe \cap timers'
    /\ outdated' = outdated \cap timers'
    /\ timer' = Null
    /\ UNCHANGED <<sessions, selectedSession, messages, page, searchQuery,
                   totalPages, loading, error, isSnackbarVisible, startDate,
                   endDate, view, filteredSessions, effectsPending,
                   fetchEffectPending, inFlight, halted, exhausted, shows,
                   closes>>

\* A response that arrives after the page has left the tree: the setters
\* of fetchSessions' continuation do nothing.
Discard(i) ==
    /\ ~mounted
    /\ inFlight' = RemoveAt(inFlight, i)
    /\ UNCHANGED <<sessions, selectedSession, messages, page, searchQuery,
                   totalPages, loading, error, isSnackbarVisible, startDate,
                   endDate, observer, view, filteredSessions, effectsPending,
                   fetchEffectPending, timers, ripe, timer, halted, exhausted,
                   shows, closes, outdated, mounted,
                   connected>>

\* One step of the loading engine and of the notification, with the
\* response bodies and the total_pages values the backend may send.
Engine(payloads, totals) ==
    \/ Render
    \/ RunPassiveEffects
    \/ Intersect
    \/ \E i \in DOMAIN inFlight, chat_sessions \in payloads, total_pages \in totals :
            FetchSuccess(i, chat_sessions, total_pages)
    \/ \E i \in DOMAIN inFlight,
          message \in {HttpErrorMessage, TransportErrorMessage} :
            FetchFailure(i, message)
    \/ Elapse
    \/ \E t \in timers : TimerFire(t)
    \/ Unmount
    \/ \E i \in DOMAIN inFlight : Discard(i)

\* One user event, with the queries typed, the dates picked and the ids
\* clicked.
User(queries, dates, ids) ==
    \/ \E q \in queries : SetSearchQuery(q)
    \/ \E d \in dates : SetStartDate(d)
    \/ \E d \in dates : SetEndDate(d)
    \/ \E sessionId \in ids : HandleSessionClick(sessionId)

\* three response bodies, neither of the two with sessions in sorted order
SomePayloads ==
    {<<>>, <<Session(4), Session(2)>>, <<Session(3), Session(1)>>}

\* The whole page: a backend of one or two pages that reports their number,
\* and a user who toggles one query and one date and clicks two sessions.
Next ==
    \/ Engine(SomePayloads, {1, 2})
    \/ User({<<>>, <<"B">>}, {<<>>, <<1>>}, {1, 4})

Spec == Init /\ [][Next]_vars

\* The loading engine alone, with a backend of two response bodies that may
\* report any number of pages or none, response by response.
NextPaging == Engine({<<>>, <<Session(3), Session(1)>>}, TotalPagesValues)

SpecPaging == Init /\ [][NextPaging]_vars

\* The loading engine with a backend whose every response succeeds and
\* reports the same number of pages.  React runs the render and the effects
\* it has scheduled, and every request is answered; nothing makes the last
\* element enter the viewport, so Intersect is not fair.
SameTotalResponse ==
    \E i \in DOMAIN inFlight, chat_sessions \in SomePayloads,
       total_pages \in 1..MaxPage :
        /\ totalPages \in {Null, total_pages}
        /\ FetchSuccess(i, chat_sessions, total_pages)

NextLive ==
    \/ Render
    \/ RunPassiveEffects
    \/ Intersect
    \/ SameTotalResponse

\* some request in flight is answered
Answered ==
    /\ Settled
    /\ inFlight' \in {RemoveAt(inFlight, i) : i \in DOMAIN inFlight}

SpecLive ==
    /\ Init
    /\ [][NextLive]_vars
    /\ WF_vars(Render)
    /\ WF_vars(RunPassiveEffects)
    /\ WF_inFlight(Answered)

\* The loading engine and the notification with a backend that may fail.
\* React runs the render and the effects it has scheduled, every request is
\* answered, and a timer that stays pending sees its delay pass and fires;
\* a timer that is cleared before its delay has passed does not.
NextNotify ==
    \/ Render
    \/ RunPassiveEffects
    \/ Intersect
    \/ \E i \in DOMAIN inFlight, total_pages \in {1, 2} :
            FetchSuccess(i, <<Session(3), Session(1)>>, total_pages)
    \/ \E i \in DOMAIN inFlight,
          message \in {HttpErrorMessage, TransportErrorMessage} :
            FetchFailure(i, message)
    \/ Elapse
    \/ \E t \in timers : TimerFire(t)

SpecNotify ==
    /\ Init
    /\ [][NextNotify]_vars
    /\ WF_vars(Render)
    /\ WF_vars(RunPassiveEffects)
    /\ WF_inFlight(Answered)
    /\ WF_vars(Elapse)
    /\ WF_vars(\E t \in timers : TimerFire(t))

-----------------------------------------------------------------------------
(* Claims *)

\* C1: at most one page fetch is in flight at any time; a call of
\* fetchSessions made before an earlier request has resolved issues no
\* request.
C1_AtMostOneFetchInFlight == Len(inFlight) <= 1

\* C2: after a fetch fails, no request is issued until the observed last
\* element enters the viewport again: a step that issues a request while
\* loading is halted is that viewport entry.
C2_NoRequestWhileHalted ==
    [][(halted /\ Len(inFlight') > Len(inFlight)) => ~halted']_vars

\* C3: when a fetch fails, the loaded list and the cursor are what they were
\* when the request was made, the error message is recorded and the
\* notification is visible.
C3_FailureLeavesListAndCursor ==
    [][\A i \in DOMAIN inFlight,
          message \in {HttpErrorMessage, TransportErrorMessage} :
            FetchFailure(i, message) =>
                /\ sessions' = inFlight[i].prevSessions
                /\ page' = inFlight[i].prevPage
                /\ error' = message
                /\ isSnackbarVisible']_vars

\* C4: once the cursor has exceeded the known total, no step issues a
\* request, and no step that issues none for that reason reports an error.
C4_NoRequestOnceExhausted ==
    [][exhausted =>
        /\ Len(inFlight') <= Len(inFlight)
        /\ (RunPassiveEffects \/ Intersect) =>
              (error' = error /\ isSnackbarVisible' = isSnackbarVisible)]_vars

\* C5: the loaded list is sorted by the time of each session's messages[0],
\* newest first, a session without messages counting as the oldest (time 0).
C5_SessionsSortedByRecency ==
    \A i \in DOMAIN sessions, j \in DOMAIN sessions :
        i < j => LatestTime(sessions[i]) >= LatestTime(sessions[j])

\* C5's case: two pages have merged into a list that holds a session
\* without messages and two sessions of different times.
C5_Witness ==
    /\ page >= 3
    /\ \E i \in DOMAIN sessions : sessions[i].messages = <<>>
    /\ \E i \in DOMAIN sessions, j \in DOMAIN sessions :
          LatestTime(sessions[i]) > LatestTime(sessions[j])
             /\ LatestTime(sessions[j]) > 0

\* C6: with every fetch succeeding and every response reporting the same
\* total T, the engine reaches cursor = T + 1 with the loading flag false and
\* stays there.
C6_ReachesTerminalCursor ==
    <>[](totalPages # Null /\ page = totalPages + 1 /\ ~loading)

\* C7: a session of the rendered list is kept by the filter exactly when its
\* name contains the query, letter case ignored (the empty query is in every
\* name), and the time of its messages[0], or the epoch without messages,
\* is not before the start bound and not after the end bound, an unset
\* bound allowing every time; two queries that differ only in letter case
\* give the same list.
SameLetter(a, b) == a = b \/ {a, b} \in {{"a", "A"}, {"b", "B"}}

SameIgnoringCase(q1, q2) ==
    Len(q1) = Len(q2) /\ \A k \in DOMAIN q1 : SameLetter(q1[k], q2[k])

Retained(session, query, start, end) ==
    /\ \E offset \in 0..(Len(session.name) - Len(query)) :
           \A k \in DOMAIN query : SameLetter(session.name[offset + k], query[k])
    /\ start # <<>> => ~(LatestTime(session) < DateInputTime(start))
    /\ end # <<>> => ~(LatestTime(session) > DateInputTime(end))

RetainedOf(list, query, start, end) ==
    SelectSeq(list, LAMBDA session : Retained(session, query, start, end))

C7_FilterRetainsMatches ==
    /\ filteredSessions = RetainedOf(view.sessions, searchQuery, startDate, endDate)
    /\ \A q \in Queries :
           FilterSessions(view.sessions, q, startDate, endDate)
               = RetainedOf(view.sessions, q, startDate, endDate)
    /\ \A s \in DateInputs, e \in DateInputs :
           FilterSessions(view.sessions, searchQuery, s, e)
               = RetainedOf(view.sessions, searchQuery, s, e)
    /\ \A q1 \in Queries, q2 \in Queries :
           (q1 # q2 /\ SameIgnoringCase(q1, q2)) =>
               FilterSessions(view.sessions, q1, startDate, endDate)
                   = FilterSessions(view.sessions, q2, startDate, endDate)

\* C7's case: an upper-case query and both date bounds are set, and the
\* filter has kept some sessions of the rendered list and dropped others.
C7_Witness ==
    /\ searchQuery = <<"B">>
    /\ startDate # <<>>
    /\ endDate # <<>>
    /\ filteredSessions # <<>>
    /\ Len(filteredSessions) < Len(view.sessions)

\* C8: the filtered list is a subsequence of the list it was computed from,
\* in the same order; it is that list itself when the query is empty and
\* both dates are unset; and a step that changes the filtered list leaves
\* the loaded list as it was.
RECURSIVE IsSubsequence(_, _)
IsSubsequence(sub, list) ==
    IF sub = <<>> THEN TRUE
    ELSE IF list = <<>> THEN FALSE
    ELSE IF sub[1] = list[1] THEN IsSubsequence(Tail(sub), Tail(list))
    ELSE IsSubsequence(sub, Tail(list))

C8_FilterKeepsOrderAndInput ==
    /\ [](IsSubsequence(filteredSessions, view.sessions))
    /\ []((searchQuery = <<>> /\ startDate = <<>> /\ endDate = <<>>)
              => filteredSessions = view.sessions)
    /\ [][filteredSessions' # filteredSessions => sessions' = sessions]_vars

\* C8's case: a filter is set and has kept two or more sessions and dropped
\* at least one.
C8_Witness ==
    /\ <<searchQuery, startDate, endDate>> # <<<<>>, <<>>, <<>>>>
    /\ Len(filteredSessions) >= 2
    /\ Len(filteredSessions) < Len(view.sessions)

\* C9: a click on a session of the list the handler reads selects its id and
\* shows its messages, issues no request and leaves the loaded list, the
\* cursor, the total, the loading flag and the error as they were; a click
\* on an id that is not in that list changes nothing.
C9_SelectionCopiesMessages ==
    [][\A sessionId \in SessionIds :
          HandleSessionClick(sessionId) =>
              IF \E k \in DOMAIN view.sessions : view.sessions[k].id = sessionId
              THEN /\ selectedSession' = sessionId
                   /\ \E k \in DOMAIN view.sessions :
                          /\ view.sessions[k].id = sessionId
                          /\ messages' = view.sessions[k].messages
                   /\ inFlight' = inFlight
                   /\ sessions' = sessions
                   /\ page' = page
                   /\ totalPages' = totalPages
                   /\ loading' = loading
                   /\ error' = error
              ELSE UNCHANGED vars]_vars

\* C9's case: the session that is not first in the list has been clicked
\* and its one message is shown.
C9_Witness ==
    /\ selectedSession = 4
    /\ messages = Session(4).messages
    /\ Len(view.sessions) >= 2
    /\ view.sessions[1].id # 4

\* C10: the notification has at most one timer pending, and exactly one
\* once React has run the effects of a render that shows it; a timer that
\* fires hides the notification and leaves no timer behind, so that onClose
\* runs once for each time the notification is shown; and a show that comes
\* within the delay of a pending timer cancels it: no timer fires that was
\* set before the latest show.
C10_SingleAutoHide ==
    /\ [](Cardinality(timers) <= 1 /\ closes <= 1)
    /\ []((mounted /\ Settled /\ isSnackbarVisible) =>
              (timer # Null /\ timers = {timer}))
    /\ [][\A t \in timers :
              TimerFire(t) =>
                  /\ ~isSnackbarVisible'
                  /\ timers' = {}
                  /\ t \notin outdated]_vars

\* C11: at most one timer of the notification is pending; once Snackbar's
\* effect has run for a render, a timer is pending only if that render
\* showed the notification (isVisible was true); and no timer is pending
\* once the page, and Snackbar with it, has left the tree.
C11_NoOverlappingOrLeakedTimer ==
    /\ Cardinality(timers) <= 1
    /\ (~effectsPending /\ timers # {}) => view.isSnackbarVisible
    /\ ~mounted => timers = {}

\* C11's case: the page has left the tree while the notification was shown
\* and Snackbar's effect had run for it.
C11_Witness ==
    /\ ~mounted
    /\ isSnackbarVisible
    /\ view.isSnackbarVisible
    /\ shows = 2

\* C12: at most one observer observes an element, and it is the one held in
\* observer.current: an observer that was replaced there observes nothing.
C12_SingleLiveObserver ==
    /\ Cardinality(connected) <= 1
    /\ connected \subseteq {observer[i] : i \in DOMAIN observer}

\* C12's case: a filter has changed the last element of the drawn list and
\* an observer made after that change observes the new last element.
C12_Witness ==
    /\ filteredSessions # <<>>
    /\ LastElement(filteredSessions) # LastElement(view.sessions)
    /\ \E o \in connected : o.target = LastElement(filteredSessions)

\* C13: the cursor starts at 1, and every step that moves it is a
\* successful fetch of the page the cursor stands at and moves it by one:
\* the pages fetched successfully are 1, 2, 3, ... in order, none skipped
\* and none twice.
C13_PagesFetchedInOrder ==
    /\ page = 1
    /\ [][page' # page =>
             /\ page' = page + 1
             /\ \E i \in DOMAIN inFlight :
                    /\ inFlight' = RemoveAt(inFlight, i)
                    /\ inFlight[i].page = page]_vars

\* C14: the loaded list holds the sessions of the pages 1..cursor-1, each
\* page once, in some order.  The list is empty at cursor 1, so this is to
\* say that every successful response is the one of the page the cursor
\* stands at, and that its merge adds the sessions it returned to those
\* already loaded, dropping and replacing none.
CountOf(list, x) == Cardinality({i \in DOMAIN list : list[i] = x})

IsPermutation(a, b) ==
    /\ Len(a) = Len(b)
    /\ \A i \in DOMAIN a : CountOf(a, a[i]) = CountOf(b, a[i])

C14_ListIsLoadedPages ==
    /\ sessions = <<>>
    /\ [][\A i \in DOMAIN inFlight, chat_sessions \in SomePayloads,
             total_pages \in TotalPagesValues :
               FetchSuccess(i, chat_sessions, total_pages) =>
                   /\ IsPermutation(sessions', sessions \o chat_sessions)
                   /\ inFlight[i].page = page]_vars

\* C15: the total is unknown at the start, and once it is known no step
\* changes it or makes it unknown again.
C15_TotalFixedOnceKnown ==
    /\ totalPages = Null
    /\ [][totalPages # Null => totalPages' = totalPages]_vars

\* C16: while the page is in the tree, the loading flag is true only with a
\* request in flight, and every step that resolves a request, successfully
\* or not, leaves the flag false.
C16_LoadingOnlyWhileInFlight ==
    /\ []((mounted /\ loading) => inFlight # <<>>)
    /\ [][(mounted /\ Len(inFlight') < Len(inFlight)) => ~loading']_vars

\* C16's case: a response has been merged and a later request has failed,
\* and with nothing in flight the flag is false.
C16_Witness ==
    /\ mounted
    /\ page >= 2
    /\ error # NoError
    /\ inFlight = <<>>
    /\ ~loading

\* C17: when no fetch is in flight, the cursor does not exceed the known
\* total and the drawn list is not empty, then, once the page has rendered
\* its state, exactly one observer observes an element, that element is the
\* last of the drawn list and the observer holds the current cursor; and an
\* entry into the viewport issues one request, for the page the cursor
\* stands at.
Pageable ==
    /\ mounted
    /\ inFlight = <<>>
    /\ ~ExceedsTotal(page, totalPages)
    /\ filteredSessions # <<>>

C17_ObserverFollowsLastElement ==
    /\ []((Pageable /\ ~Dirty) =>
            \E o \in connected :
                /\ connected = {o}
                /\ o.target = filteredSessions[Len(filteredSessions)].id
                /\ o.fs.page = page)
    /\ [][(Pageable /\ Intersect) =>
             (Len(inFlight') = 1 /\ inFlight'[1].page = page)]_vars

\* C17's case: the second page is due, a filter has made another session
\* the last of the drawn list, and the render has been committed.
C17_Witness ==
    /\ Pageable
    /\ ~Dirty
    /\ page >= 2
    /\ filteredSessions[Len(filteredSessions)].id
           # view.sessions[Len(view.sessions)].id

\* C18: whenever the notification is visible it is hidden at some later
\* time, whatever renders of the page come in between.
C18_NotificationEventuallyHides == isSnackbarVisible ~> ~isSnackbarVisible

\* C19: whenever a session is selected, a session with the selected id is in
\* the loaded list and the message view is the message sequence of that
\* session.  (Session ids are unique in SessionPool: a session loaded twice
\* has the same messages both times.)
C19_SelectionStaysValid ==
    selectedSession # Null =>
        \E k \in DOMAIN sessions :
            /\ sessions[k].id = selectedSession
            /\ messages = sessions[k].messages

\* C19's case: a session is selected, a filter is set, and two pages have
\* been merged and sorted, the selected session not being the first.
C19_Witness ==
    /\ selectedSession # Null
    /\ searchQuery # <<>>
    /\ page >= 3
    /\ Len(sessions) >= 4
    /\ sessions[1].id # selectedSession

=============================================================================
